---- MODULE Spec2Model ----
(***************************************************************************)
(* A model of the Google Ads MCP server: the GAQL translation layer        *)
(* (tools/gaql.py), the identifier and query validators (auth.py), the     *)
(* lazily constructed client singleton (__main__.py) and the five tools    *)
(* (tools/__init__.py, tools/customers.py, tools/health.py).               *)
(*                                                                         *)
(* Python text is modelled by TLA+ strings; a character is a string of     *)
(* length one.  Every str method and regular expression the code uses is   *)
(* an operator that computes what the Python computes.                     *)
(***************************************************************************)
EXTENDS Integers, Sequences, FiniteSets, TLC

(***************************************************************************)
(* Python str primitives                                                   *)
(***************************************************************************)

\* s[i-1] of Python, 1-based here
Ch(s, i) == SubSeq(s, i, i)

\* s[i-1:] of Python
Tail_(s, i) == SubSeq(s, i, Len(s))

LowerChars == "abcdefghijklmnopqrstuvwxyz"

UpperChars == "ABCDEFGHIJKLMNOPQRSTUVWXYZ"

AsciiDigits == "0123456789"

\* characters of category Nd/No that str.isdigit() accepts and that are
\* not the ASCII digits (superscript two, three, one)
OtherDigits == "²³¹"

LowerSet == {Ch(LowerChars, i) : i \in 1..Len(LowerChars)}

UpperSet == {Ch(UpperChars, i) : i \in 1..Len(UpperChars)}

AsciiDigitSet == {Ch(AsciiDigits, i) : i \in 1..Len(AsciiDigits)}

OtherDigitSet == {Ch(OtherDigits, i) : i \in 1..Len(OtherDigits)}

\* what str.strip() strips and what \s matches
WhitespaceSet == {" ", "\t", "\n", "\r"}

\* what \w matches
WordSet == LowerSet \cup UpperSet \cup AsciiDigitSet \cup OtherDigitSet \cup {"_"}

UpMap == [c \in LowerSet |-> Ch(UpperChars, CHOOSE i \in 1..Len(LowerChars) : Ch(LowerChars, i) = c)]

LowMap == [c \in UpperSet |-> Ch(LowerChars, CHOOSE i \in 1..Len(UpperChars) : Ch(UpperChars, i) = c)]

UpChar(c) == IF c \in LowerSet THEN UpMap[c] ELSE c

LowChar(c) == IF c \in UpperSet THEN LowMap[c] ELSE c

RECURSIVE Upper(_)
\* str.upper()
Upper(s) ==
    IF Len(s) <= 1 THEN UpChar(s)
    ELSE Upper(SubSeq(s, 1, Len(s) \div 2)) \o Upper(Tail_(s, Len(s) \div 2 + 1))

RECURSIVE Lower(_)
\* str.lower()
Lower(s) ==
    IF Len(s) <= 1 THEN LowChar(s)
    ELSE Lower(SubSeq(s, 1, Len(s) \div 2)) \o Lower(Tail_(s, Len(s) \div 2 + 1))

\* s.startswith(p), tested at position i
MatchAt(s, i, p) == i + Len(p) - 1 <= Len(s) /\ SubSeq(s, i, i + Len(p) - 1) = p

StartsWith(s, p) == MatchAt(s, 1, p)

\* the positions at which sub occurs in s
Occurrences(s, sub) == {i \in 1..(Len(s) - Len(sub) + 1) : MatchAt(s, i, sub)}

\* sub in s
Contains(s, sub) == Occurrences(s, sub) # {}

\* the least element of a non-empty set of positions
Min(S) == CHOOSE i \in S : \A j \in S : i <= j

\* s.find(sub) + 1, 0 when absent
Find(s, sub) ==
    LET occ == Occurrences(s, sub)
    IN  IF occ = {} THEN 0 ELSE Min(occ)

RECURSIVE Replace(_, _, _)
\* s.replace(old, new): every non-overlapping occurrence, left to right
Replace(s, old, new) ==
    LET i == Find(s, old)
    IN  IF i = 0 THEN s
        ELSE SubSeq(s, 1, i - 1) \o new \o Replace(Tail_(s, i + Len(old)), old, new)

RECURSIVE SplitFrom(_, _, _, _)
\* the pieces of s from position start on, cut at the occurrences occ of a
\* separator of length n, left to right and without overlap
SplitFrom(s, occ, start, n) ==
    LET rest == {i \in occ : i >= start}
    IN  IF rest = {} THEN <<Tail_(s, start)>>
        ELSE <<SubSeq(s, start, Min(rest) - 1)>> \o SplitFrom(s, occ, Min(rest) + n, n)

\* s.split(sep)
Split(s, sep) == SplitFrom(s, Occurrences(s, sep), 1, Len(sep))

\* s.split(sep, 1)
SplitOnce(s, sep) ==
    LET i == Find(s, sep)
    IN  IF i = 0 THEN <<s>>
        ELSE <<SubSeq(s, 1, i - 1), Tail_(s, i + Len(sep))>>

RECURSIVE LStrip(_)
LStrip(s) == IF s # "" /\ Ch(s, 1) \in WhitespaceSet THEN LStrip(Tail_(s, 2)) ELSE s

RECURSIVE RStrip(_)
RStrip(s) ==
    IF s # "" /\ Ch(s, Len(s)) \in WhitespaceSet THEN RStrip(SubSeq(s, 1, Len(s) - 1)) ELSE s

\* str.strip()
Strip(s) == RStrip(LStrip(s))

\* str.isdigit(): non-empty and every character is a digit character
IsDigit(s) == s # "" /\ \A i \in 1..Len(s) : Ch(s, i) \in (AsciiDigitSet \cup OtherDigitSet)

\* the first position >= i of s that is not whitespace (Len(s)+1 at the end)
RECURSIVE SkipWs(_, _)
SkipWs(s, i) == IF i <= Len(s) /\ Ch(s, i) \in WhitespaceSet THEN SkipWs(s, i + 1) ELSE i

\* the first position >= i of s that is not a word character
RECURSIVE SkipWord(_, _)
SkipWord(s, i) == IF i <= Len(s) /\ Ch(s, i) \in WordSet THEN SkipWord(s, i + 1) ELSE i

\* a match of the literal p at position i under re.IGNORECASE
MatchAtCI(s, i, p) ==
    /\ i + Len(p) - 1 <= Len(s)
    /\ p = "" \/ LowChar(Ch(s, i)) = LowChar(Ch(p, 1))
    /\ Lower(SubSeq(s, i, i + Len(p) - 1)) = Lower(p)

(***************************************************************************)
(* auth.py: the validators                                                 *)
(***************************************************************************)

\* the length format_customer_id requires
CustomerIdLen == 10

\* a function result: the returned value, or the message of the raised fault
Ok(v) == [ok |-> TRUE, val |-> v]

Raise(msg) == [ok |-> FALSE, val |-> msg]

\* auth.format_customer_id
format_customer_id(customer_id) ==
    LET clean_id == Replace(Replace(customer_id, "-", ""), " ", "")
    IN  IF customer_id = "" THEN Raise("Customer ID cannot be empty")
        ELSE IF ~IsDigit(clean_id) \/ Len(clean_id) # CustomerIdLen
             THEN Raise("Customer ID must be exactly 10 digits, got: " \o customer_id)
             ELSE Ok(clean_id)

\* a caller-supplied argument: isStr says whether it is a str, val is its
\* text (its JSON rendering when it is not a str)
Text(s) == [isStr |-> TRUE, val |-> s]

NonText(s) == [isStr |-> FALSE, val |-> s]

\* bool(arg) of Python
Truthy(arg) == IF arg.isStr THEN arg.val # "" ELSE arg.val \notin {"null", "0", "false"}

\* auth.validate_gaql_query
validate_gaql_query(query) ==
    IF ~Truthy(query) \/ ~query.isStr THEN FALSE
    ELSE LET query_upper == Strip(Upper(query.val))
         IN  IF ~StartsWith(query_upper, "SELECT") THEN FALSE
             ELSE IF ~Contains(query_upper, "FROM") THEN FALSE
             ELSE TRUE

(***************************************************************************)
(* tools/gaql.py: the Date-Filter Rewriter                                 *)
(***************************************************************************)

\* the end (exclusive) of the keyword alternative
\* (YESTERDAY|TODAY|LAST_\w+_?\w*) matched at position c, 0 when none
\* matches; \w+ is greedy and \w contains the underscore, so the LAST_
\* alternative runs to the end of the word
KeywordEnd(s, c) ==
    IF MatchAtCI(s, c, "YESTERDAY") THEN c + 9
    ELSE IF MatchAtCI(s, c, "TODAY") THEN c + 5
    ELSE IF MatchAtCI(s, c, "LAST_") /\ SkipWord(s, c + 5) > c + 5 THEN SkipWord(s, c + 5)
    ELSE 0

\* a match of segments\.date\s*=\s*(...) at position i under re.IGNORECASE:
\* the start and end (exclusive) of group 1, <<0, 0>> when there is none
DateMatchAt(s, i) ==
    IF ~MatchAtCI(s, i, "segments.date") THEN <<0, 0>>
    ELSE LET b == SkipWs(s, i + 13)
         IN  IF ~MatchAt(s, b, "=") THEN <<0, 0>>
             ELSE LET c == SkipWs(s, b + 1)
                  IN  IF KeywordEnd(s, c) = 0 THEN <<0, 0>> ELSE <<c, KeywordEnd(s, c)>>

RECURSIVE FindAllDate(_, _)
\* re.findall(pattern, s, re.IGNORECASE) from position i: group 1 of every
\* non-overlapping match, left to right
FindAllDate(s, i) ==
    LET starts == {j \in i..Len(s) : DateMatchAt(s, j)[1] # 0}
    IN  IF starts = {} THEN <<>>
        ELSE LET m == DateMatchAt(s, Min(starts))
             IN  <<SubSeq(s, m[1], m[2] - 1)>> \o FindAllDate(s, m[2])

FixRecord(old_pattern, new_pattern) ==
    [type |-> "auto_fix",
     message |-> "Converted '" \o old_pattern \o "' to '" \o new_pattern \o "'",
     reason |-> "Date equality with keywords requires DURING operator"]

RECURSIVE FixLoop(_, _, _)
\* the for loop of detect_and_fix_date_formats over matches
FixLoop(matches, fixed_query, fixes_applied) ==
    IF matches = <<>> THEN [query |-> fixed_query, fixes |-> fixes_applied]
    ELSE LET match == Head(matches)
             old_pattern == "segments.date = " \o match
             new_pattern == "segments.date DURING " \o match
         IN  FixLoop(Tail(matches),
                     Replace(fixed_query, old_pattern, new_pattern),
                     Append(fixes_applied, FixRecord(old_pattern, new_pattern)))

\* gaql.detect_and_fix_date_formats
detect_and_fix_date_formats(query) == FixLoop(FindAllDate(query, 1), query, <<>>)

(***************************************************************************)
(* tools/gaql.py: the Field Projector                                      *)
(***************************************************************************)

\* \s+FROM matched at position e: whitespace at e, and FROM right after the
\* run of whitespace that starts at e
WsFromAt(s, e) ==
    e <= Len(s) /\ Ch(s, e) \in WhitespaceSet /\ MatchAtCI(s, SkipWs(s, e), "FROM")

\* SELECT\s+(.*?)\s+FROM matched at position i (IGNORECASE | DOTALL): group 1.
\* \s+ first takes the whole run of whitespace after SELECT and the lazy
\* group then ends at the first position where \s+FROM matches; when that
\* fails \s+ gives whitespace back, which matches only "SELECT", two or more
\* whitespace characters, "FROM", with an empty group
SelectMatchAt(s, i) ==
    LET p0 == SkipWs(s, i + 6)
        ends == {e \in p0..Len(s) : WsFromAt(s, e)}
    IN  IF ~MatchAtCI(s, i, "SELECT") \/ p0 = i + 6 THEN Raise("")
        ELSE IF ends # {}
             THEN Ok(SubSeq(s, p0, Min(ends) - 1))
             ELSE IF p0 >= i + 8 /\ MatchAtCI(s, p0, "FROM") THEN Ok("")
             ELSE Raise("")

RECURSIVE SelectSearchFrom(_, _)
\* the match at the leftmost position >= i that has one
SelectSearchFrom(s, i) ==
    LET starts == {j \in i..Len(s) : MatchAtCI(s, j, "SELECT")}
    IN  IF starts = {} THEN Raise("")
        ELSE LET select_match == SelectMatchAt(s, Min(starts))
             IN  IF select_match.ok THEN select_match
                 ELSE SelectSearchFrom(s, Min(starts) + 1)

\* re.search: the match at the leftmost position that has one
SelectSearch(s) == SelectSearchFrom(s, 1)

RECURSIVE StripAll(_)
\* [field.strip() for field in fields]
StripAll(fields) ==
    IF fields = <<>> THEN <<>> ELSE <<Strip(Head(fields))>> \o StripAll(Tail(fields))

\* the position of entity in the ordered dict entities, 0 when absent
EntityIndex(entities, entity) ==
    IF \E k \in 1..Len(entities) : entities[k].entity = entity
    THEN CHOOSE k \in 1..Len(entities) : entities[k].entity = entity
    ELSE 0

\* NewEntity with the bug of putting a new entity in front
NewEntity_Front(entities, entity) == <<[entity |-> entity, attrs |-> <<>>]>> \o entities

\* entities[entity] = [] for a new key: Python dicts keep insertion order
NewEntity(entities, entity) == Append(entities, [entity |-> entity, attrs |-> <<>>])

\* entities[entity].append(attribute)
AppendAttribute(attrs, attribute) == Append(attrs, attribute)

\* one iteration of the grouping loop of parse_select_fields
GroupField(entities, field) ==
    IF ~Contains(field, ".") THEN entities
    ELSE LET parts == SplitOnce(field, ".")
             entity == parts[1]
             attribute == parts[2]
             ents == IF EntityIndex(entities, entity) = 0
                     THEN NewEntity(entities, entity) ELSE entities
             k == EntityIndex(ents, entity)
         IN  [ents EXCEPT ![k].attrs = AppendAttribute(@, attribute)]

RECURSIVE GroupLoop(_, _)
GroupLoop(fields, entities) ==
    IF fields = <<>> THEN entities
    ELSE LET grouped == GroupField(entities, Head(fields))
         IN  GroupLoop(Tail(fields), grouped)

\* the fields list of parse_select_fields: the stripped comma-separated
\* tokens of the SELECT clause (empty when the query has no SELECT clause)
SelectFields(query) ==
    LET select_match == SelectSearch(query)
    IN  IF ~select_match.ok THEN <<>> ELSE StripAll(Split(select_match.val, ","))

\* gaql.parse_select_fields: the ordered dict, as the sequence of its items
parse_select_fields(query) == GroupLoop(SelectFields(query), <<>>)

(***************************************************************************)
(* tools/gaql.py: the value normalizer and the Response Flattener          *)
(***************************************************************************)

\* A value read from a result row.  kind names what the Python object is;
\* text is its str() (its name for an enum member); sub holds the declared
\* fields of a message as <<name, value>> pairs, or the elements of a
\* repeated field.
Val(kind, text, sub) == [kind |-> kind, text |-> text, sub |-> sub]

\* A JSON value: kind is "str", "num", "bool", "null", "object" or "array"
Json(kind, text, sub) == [kind |-> kind, text |-> text, sub |-> sub]

JsonNull == Json("null", "null", <<>>)

\* hasattr(value, '__dict__')
HasDict(value) == value.kind \in {"message", "object"}

\* value.DESCRIPTOR exists
HasDescriptor(value) == value.kind = "message"

\* isinstance(value, (int, float, str, bool)); a member of an enum.IntEnum
\* is an int
IsScalar(value) == value.kind \in {"str", "num", "bool", "int_enum"}

\* hasattr(value, 'name')
HasName(value) == value.kind \in {"enum", "int_enum"}

\* "return value": the JSON form of a scalar; json.dumps writes a member of
\* an enum.IntEnum as its integer, kept in sub
Passed(value) ==
    IF value.kind = "int_enum" THEN Json("num", value.sub[1], <<>>)
    ELSE Json(value.kind, value.text, <<>>)

\* hasattr(field_value, '__iter__') and not isinstance(field_value, (str, bytes))
IsRepeated(value) == value.kind = "repeated"

RECURSIVE ConvertValue(_)
RECURSIVE ConvertItems(_)
RECURSIVE ConvertFields(_)

\* [_convert_protobuf_value(item) for item in field_value]
ConvertItems(items) ==
    IF items = <<>> THEN Ok(<<>>)
    ELSE LET h == ConvertValue(Head(items))
             t == ConvertItems(Tail(items))
         IN  IF ~h.ok THEN h ELSE IF ~t.ok THEN t ELSE Ok(<<h.val>> \o t.val)

\* the loop over value.DESCRIPTOR.fields; a field whose value is None is left out
ConvertFields(fields) ==
    IF fields = <<>> THEN Ok(<<>>)
    ELSE IF Head(fields)[2].kind = "none" THEN ConvertFields(Tail(fields))
    ELSE LET name == Head(fields)[1]
             field_value == Head(fields)[2]
             h == IF IsRepeated(field_value)
                  THEN LET items == ConvertItems(field_value.sub)
                       IN  IF items.ok THEN Ok(Json("array", "", items.val)) ELSE items
                  ELSE ConvertValue(field_value)
             t == ConvertFields(Tail(fields))
         IN  IF ~h.ok THEN h ELSE IF ~t.ok THEN t ELSE Ok(<<(<<name, h.val>>)>> \o t.val)

\* gaql._convert_protobuf_value
ConvertValue(value) ==
    IF HasDict(value)
    THEN IF ~HasDescriptor(value)
         THEN Raise("'" \o value.text \o "' object has no attribute 'DESCRIPTOR'")
         ELSE LET result == ConvertFields(value.sub)
              IN  IF result.ok THEN Ok(Json("object", "", result.val)) ELSE result
    ELSE IF IsScalar(value) THEN Ok(Passed(value))
    ELSE IF HasName(value) THEN Ok(Json("str", value.text, <<>>))
    ELSE Ok(Json("str", value.text, <<>>))

\* d[k] = v on a Python dict, keys without order
DictSet(d, k, v) == [x \in (DOMAIN d) \cup {k} |-> IF x = k THEN v ELSE d[x]]

\* {}
EmptyDict == [x \in {} |-> JsonNull]

\* FieldEntry with the bug of storing "" for an absent attribute
FieldEntry_AbsentAsEmpty(entity, field_name) ==
    IF field_name \in DOMAIN entity THEN ConvertValue(entity[field_name])
    ELSE Ok(Json("str", "", <<>>))

\* the value stored for field_name: the converted attribute, or None
FieldEntry(entity, field_name) ==
    IF field_name \in DOMAIN entity THEN ConvertValue(entity[field_name]) ELSE Ok(JsonNull)

RECURSIVE FieldLoop(_, _, _)
\* for field_name in field_names
FieldLoop(entity, field_names, entity_dict) ==
    IF field_names = <<>> THEN Ok(entity_dict)
    ELSE LET v == FieldEntry(entity, Head(field_names))
         IN  IF ~v.ok THEN v
             ELSE FieldLoop(entity, Tail(field_names), DictSet(entity_dict, Head(field_names), v.val))

\* hasattr(row, entity_name)
RowHasEntity(row, entity_name) == entity_name \in DOMAIN row

RECURSIVE EntityLoop(_, _, _)
\* for entity_name, field_names in requested_entities.items()
EntityLoop(row, requested_entities, result_dict) ==
    IF requested_entities = <<>> THEN Ok(result_dict)
    ELSE LET item == Head(requested_entities)
         IN  IF RowHasEntity(row, item.entity)
             THEN LET entity_dict == FieldLoop(row[item.entity], item.attrs, EmptyDict)
                  IN  IF ~entity_dict.ok THEN entity_dict
                      ELSE EntityLoop(row, Tail(requested_entities),
                                      DictSet(result_dict, item.entity, entity_dict.val))
             ELSE EntityLoop(row, Tail(requested_entities), result_dict)

\* the body of "for row in response": one Flattened Result Row
FlattenRow(row, requested_entities) == EntityLoop(row, requested_entities, EmptyDict)

RECURSIVE FlattenRows(_, _)
\* the loop "for row in response": results, or the fault that ends it
FlattenRows(response, requested_entities) ==
    IF response = <<>> THEN Ok(<<>>)
    ELSE LET h == FlattenRow(Head(response), requested_entities)
             t == FlattenRows(Tail(response), requested_entities)
         IN  IF ~h.ok THEN h ELSE IF ~t.ok THEN t ELSE Ok(<<h.val>> \o t.val)

(***************************************************************************)
(* tools/gaql.py: the Query Advisor                                        *)
(***************************************************************************)

SuggestLimit ==
    [type |-> "performance",
     message |-> "Consider adding a LIMIT clause to prevent large result sets",
     suggestion |-> "Add 'LIMIT 1000' to your query"]

SuggestDateRange ==
    [type |-> "performance",
     message |-> "When using segments.date, consider adding a date range filter",
     suggestion |-> "Add 'WHERE segments.date DURING LAST_30_DAYS' to your query"]

SuggestFilter ==
    [type |-> "performance",
     message |-> "Performance metrics should be filtered to improve query speed",
     suggestion |-> "Add WHERE conditions to filter your data"]

expensive_metrics == <<"metrics.impressions", "metrics.clicks", "metrics.cost_micros">>

\* "LIMIT" not in optimized_query.upper()
MissingLimit(optimized_query) == ~Contains(Upper(optimized_query), "LIMIT")

\* MissingDateRange with the bug of not testing for the date segment field
MissingDateRange_NoFieldTest(optimized_query) == ~Contains(Upper(optimized_query), "DURING")

\* "segments.date" in optimized_query.lower() and "DURING" not in optimized_query.upper()
MissingDateRange(optimized_query) ==
    Contains(Lower(optimized_query), "segments.date") /\ ~Contains(Upper(optimized_query), "DURING")

has_expensive_metrics(optimized_query) ==
    \E k \in 1..Len(expensive_metrics) : Contains(Lower(optimized_query), expensive_metrics[k])

has_where_clause(optimized_query) == Contains(Upper(optimized_query), "WHERE")

\* has_expensive_metrics and not has_where_clause
UnfilteredMetrics(optimized_query) ==
    has_expensive_metrics(optimized_query) /\ ~has_where_clause(optimized_query)

\* the suggestions list preprocess_gaql_query builds
Suggestions(optimized_query) ==
    (IF MissingLimit(optimized_query) THEN <<SuggestLimit>> ELSE <<>>)
    \o (IF MissingDateRange(optimized_query) THEN <<SuggestDateRange>> ELSE <<>>)
    \o (IF UnfilteredMetrics(optimized_query) THEN <<SuggestFilter>> ELSE <<>>)

\* OptimizedQuery with the bug of applying the Rewriter to the query
OptimizedQuery_Rewritten(query) == detect_and_fix_date_formats(Strip(query)).query

\* optimized_query = query.strip()
OptimizedQuery(query) == Strip(query)

\* gaql.preprocess_gaql_query: the returned JSON object
preprocess_gaql_query(query) ==
    IF ~validate_gaql_query(query)
    THEN [error |-> "Invalid GAQL query format", original_query |-> query.val]
    ELSE LET optimized_query == OptimizedQuery(query.val)
             suggestions == Suggestions(optimized_query)
         IN  [original_query |-> query.val,
              optimized_query |-> optimized_query,
              is_valid |-> TRUE,
              suggestions |-> suggestions,
              suggestion_count |-> Len(suggestions)]

(***************************************************************************)
(* Inputs                                                                  *)
(***************************************************************************)

\* the number of tool invocations a process serves
MaxCalls == 2

\* the number of rows in a response of the remote search call
MaxRows == 2

\* tool invocations running while the one followed in detail is suspended
MaxOthers == 1

SelectClauses ==
    {"SELECT campaign.name",
     "SELECT campaign.name, metrics.clicks, campaign.id",
     "select metrics.impressions,segments.date",
     "SELECT name",
     "SELECT metrics.clicks , campaign.id, status,campaign.name, campaign.id"}

WhereClauses ==
    {"",
     " WHERE campaign.status = 'ENABLED'",
     " WHERE segments.date = YESTERDAY",
     " WHERE segments.date = yesterday",
     " WHERE SEGMENTS.DATE = YESTERDAY",
     " WHERE segments.date=TODAY",
     " WHERE segments.date DURING YESTERDAY",
     " WHERE segments.date = LAST_7_DAYS AND campaign.status = 'ENABLED'",
     " WHERE segments.date = YESTERDAY OR segments.date = YESTERDAY"}

LimitClauses == {"", " LIMIT 10"}

\* the SELECT clause the WHERE clauses are tried with
BaseSelect == "SELECT campaign.name, metrics.clicks, campaign.id"

\* queries that pass validate_gaql_query
ValidQueries ==
    {Text(sel \o " FROM campaign" \o lim) : sel \in SelectClauses, lim \in LimitClauses}
    \cup {Text(BaseSelect \o " FROM campaign" \o wh \o lim) :
             wh \in WhereClauses, lim \in LimitClauses}
    \cup {Text("  select campaign.id\nfrom campaign \n"),
          Text("SELECT campaign.status, campaign.labels FROM campaign")}

\* queries that fail validate_gaql_query
InvalidQueries ==
    {Text(""), Text("   "), Text("DELETE FROM campaign"), Text("SELECT campaign.name"),
     Text("WITH x SELECT a.b FROM c"), NonText("5"), NonText("null")}

Queries == ValidQueries \cup InvalidQueries

\* the queries execute_gaql is tried on with every account identifier
CoreQueries ==
    {Text("SELECT campaign.name FROM campaign"),
     Text("SELECT campaign.name FROM campaign WHERE segments.date = YESTERDAY"),
     Text("DELETE FROM campaign")}

GoodCustomerId == "123-456-7890"

CustomerIds ==
    {"", GoodCustomerId, "1234567890", "123 456 7890", "12345", "abcdefghij",
     "12345678901", "123\t456\t7890", "1234567890\n", "²²²²²²²²²²", "----------"}

Str(t) == Val("str", t, <<>>)

Num(t) == Val("num", t, <<>>)

Enum(t) == Val("enum", t, <<>>)

\* a member of an enum.IntEnum: its name and its integer
IntEnum(name, code) == Val("int_enum", name, <<code>>)

RowFull ==
    [campaign |-> [name |-> Str("Summer"), id |-> Num("7"), status |-> Enum("ENABLED")],
     metrics |-> [clicks |-> Num("12"), impressions |-> Num("340")],
     segments |-> [date |-> Str("2025-09-24")],
     customer |-> [id |-> Num("1234567890")]]

RowSparse == [campaign |-> [name |-> Str("Winter")], ad_group |-> [id |-> Num("3")]]

RowNested ==
    [campaign |->
        [name |-> Val("message", "Name",
                      <<(<<"value", Str("Fall")>>),
                        (<<"labels", Val("repeated", "[]", <<Str("a"), Enum("PAUSED")>>)>>),
                        (<<"unset", Val("none", "None", <<>>)>>)>>),
         id |-> Val("other", "<opaque>", <<>>),
         status |-> IntEnum("PAUSED", "3"),
         labels |-> Val("repeated", "['a', 'b']", <<Str("a"), Str("b")>>)],
     metrics |-> [impressions |-> Num("1")]]

\* a row holding an object that has a __dict__ and no DESCRIPTOR
RowFaulty == [campaign |-> [name |-> Val("object", "Wrapper", <<>>), id |-> Num("9")]]

SearchRows == {RowFull, RowSparse, RowNested, RowFaulty}

RECURSIVE SeqsUpTo(_, _)
\* the sequences over S of length at most n
SeqsUpTo(S, n) ==
    IF n = 0 THEN {<<>>}
    ELSE LET shorter == SeqsUpTo(S, n - 1)
         IN  shorter \cup {Append(q, x) : q \in shorter, x \in S}

\* what the remote search call returns on success
SearchResponses == SeqsUpTo(SearchRows, MaxRows)

CustomerRowFull ==
    [customer |->
        [id |-> Num("1234567890"), descriptive_name |-> Str("Acme"),
         currency_code |-> Str("USD"), time_zone |-> Str("Europe/Paris"),
         tracking_url_template |-> Str(""), auto_tagging_enabled |-> Val("bool", "true", <<>>),
         has_partners_badge |-> Val("bool", "false", <<>>), manager |-> Val("bool", "false", <<>>),
         test_account |-> Val("bool", "true", <<>>),
         resource_name |-> Str("customers/1234567890")]]

CustomerRowSparse == [customer |-> [id |-> Num("1234567890"), descriptive_name |-> Str("Acme")]]

CustomerRowFaulty == [customer |-> [id |-> Val("object", "Wrapper", <<>>)]]

CustomerRows == {CustomerRowFull, CustomerRowSparse, CustomerRowFaulty, RowSparse}

CustomerResponses == SeqsUpTo(CustomerRows, MaxRows)

\* accessible_customers.resource_names
ResourceNameLists ==
    {<<>>, <<"customers/1234567890">>,
     <<"customers/1", "customers/2", "customers/3", "customers/4", "customers/5", "customers/6">>}

\* one entry of ex.failure.errors; location says whether error.location is truthy
AdsError(code, message, location) ==
    [error_code |-> code, message |-> message, location |-> location]

\* ex.failure.errors of a GoogleAdsException
AdsFailures ==
    {<<>>,
     <<AdsError("query_error: UNRECOGNIZED_FIELD", "Unrecognized field", TRUE)>>,
     <<AdsError("authorization_error: USER_PERMISSION_DENIED", "No access", FALSE)>>,
     <<AdsError("quota_error: RESOURCE_EXHAUSTED", "Too many requests", FALSE),
       AdsError("query_error: BAD_FIELD_NAME", "Bad field", TRUE)>>}

\* str(e) of any other fault of the remote call
RemoteFaults == {"Deadline Exceeded"}

(***************************************************************************)
(* The process: settings, the client singleton, one tool invocation        *)
(***************************************************************************)

VARIABLES
    credentials,            \* the required settings in the environment: "absent", "empty", "present"
    entry,                  \* "main": run as __main__ (python -m); "script": main() called
                            \* on the imported module; "import": tools hosted without main()
    proc,                   \* "boot", "loaded", "serving", "crashed"
    ads_client,             \* _ads_client of the module google_ads_mcp.__main__ the tools
                            \* import get_client from: "None" or the client
    main_ads_client,        \* _ads_client of the module object named __main__, which is
                            \* another one when the package is run as __main__
    others_started,         \* get_client calls other tool invocations have made since
                            \* this invocation suspended in its remote call
    construct_attempts,     \* calls of get_ads_client so far
    constructions,          \* calls of get_ads_client that returned a client
    calls,                  \* tool invocations started so far
    tool,                   \* the tool being invoked, "none" between invocations
    pc,                     \* "idle", "awaiting" (the remote call is in flight), "done"
    arg_query,              \* the caller-supplied query argument
    arg_customer_id,        \* the caller-supplied customer_id argument
    query,                  \* the local query of _execute_gaql_async
    fixes,                  \* the local fixes of _execute_gaql_async
    formatted_customer_id,  \* the local formatted_customer_id
    response,               \* the local response: the rows the remote search call returned
    requested_entities,     \* the local requested_entities
    remote_result,          \* how the awaited remote call ended: "none", "ok", "ads_error", "fault"
    get_client_calls,       \* calls of get_client in this invocation
    attempted,              \* get_client called get_ads_client in this invocation
    remote_calls,           \* remote calls issued in this invocation
    outcome,                \* "none", "returned", "raised"
    ret,                    \* the JSON object returned, or the fault raised
    failed                  \* a fault or an invalid input occurred in this invocation

procVars == <<credentials, entry, proc>>

clientVars == <<ads_client, main_ads_client, construct_attempts, constructions>>

otherVars == <<others_started>>

argVars == <<tool, arg_query, arg_customer_id>>

localVars == <<query, fixes, formatted_customer_id>>

rowVars == <<response, requested_entities, remote_result>>

countVars == <<get_client_calls, attempted, remote_calls>>

resultVars == <<outcome, ret, failed>>

vars == <<procVars, clientVars, otherVars, calls, argVars, pc, localVars, rowVars, countVars,
          resultVars>>

NoArg == Text("")

NoRet == [pending |-> TRUE]

Init ==
    /\ credentials \in {"absent", "empty", "present"}
    /\ entry \in {"main", "script", "import"}
    /\ proc = "boot"
    /\ ads_client = "None"
    /\ main_ads_client = "None"
    /\ others_started = 0
    /\ construct_attempts = 0
    /\ constructions = 0
    /\ calls = 0
    /\ tool = "none"
    /\ pc = "idle"
    /\ arg_query = NoArg
    /\ arg_customer_id = ""
    /\ query = ""
    /\ fixes = <<>>
    /\ formatted_customer_id = ""
    /\ response = <<>>
    /\ requested_entities = <<>>
    /\ remote_result = "none"
    /\ get_client_calls = 0
    /\ attempted = FALSE
    /\ remote_calls = 0
    /\ outcome = "none"
    /\ ret = NoRet
    /\ failed = FALSE

\* config.py: config = Settings() at import; a required field without a
\* value makes Settings() raise, and the import of the package fails
LoadSettings ==
    /\ proc = "boot"
    /\ proc' = IF credentials = "absent" THEN "crashed" ELSE "loaded"
    /\ UNCHANGED <<otherVars, credentials, entry, clientVars, calls, argVars, pc, localVars, rowVars,
                   countVars, resultVars>>

\* auth.get_ads_client: the client, or the RuntimeError it raises;
\* refresh_ok is the outcome of credentials.refresh(Request())
get_ads_client(refresh_ok) ==
    IF credentials # "present"
    THEN Raise("Failed to create Google Ads client: GOOGLE_ADS_REFRESH_TOKEN is required")
    ELSE IF ~refresh_ok
         THEN Raise("Failed to create Google Ads client: token refresh failed")
         ELSE Ok("GoogleAdsClient")

\* __main__.get_client: what it returns or raises
get_client(refresh_ok) ==
    IF ads_client = "None" THEN get_ads_client(refresh_ok) ELSE Ok(ads_client)

\* __main__.get_client: its effect on the singleton and the counters
GetClientEffect(refresh_ok) ==
    LET client == get_client(refresh_ok)
    IN  /\ ads_client' = IF client.ok THEN client.val ELSE ads_client
        /\ construct_attempts' = construct_attempts + (IF ads_client = "None" THEN 1 ELSE 0)
        /\ constructions' = constructions + (IF ads_client = "None" /\ client.ok THEN 1 ELSE 0)
        /\ UNCHANGED main_ads_client

\* get_client of the module object __main__: what it returns or raises
main_get_client(refresh_ok) ==
    IF main_ads_client = "None" THEN get_ads_client(refresh_ok) ELSE Ok(main_ads_client)

\* get_client() as main() calls it.  Run as __main__, main() belongs to the
\* module object __main__, while "from ..__main__ import get_client" in the
\* tools imports the file again as google_ads_mcp.__main__, with a global
\* _ads_client of its own; called on the imported module, both are the same.
MainGetClientEffect(refresh_ok) ==
    IF entry = "main"
    THEN LET client == main_get_client(refresh_ok)
         IN  /\ main_ads_client' = IF client.ok THEN client.val ELSE main_ads_client
             /\ construct_attempts' =
                    construct_attempts + (IF main_ads_client = "None" THEN 1 ELSE 0)
             /\ constructions' =
                    constructions + (IF main_ads_client = "None" /\ client.ok THEN 1 ELSE 0)
             /\ UNCHANGED ads_client
    ELSE GetClientEffect(refresh_ok)

\* whether get_client() returned to main()
MainGotClient(refresh_ok) ==
    IF entry = "main" THEN main_get_client(refresh_ok).ok ELSE get_client(refresh_ok).ok

\* Main with the bug of logging the fault without re-raising it
Main_Swallow ==
    /\ proc = "loaded"
    /\ entry \in {"main", "script"}
    /\ \E refresh_ok \in BOOLEAN :
          /\ MainGetClientEffect(refresh_ok)
          /\ proc' = "serving"
    /\ UNCHANGED <<otherVars, credentials, entry, calls, argVars, pc, localVars, rowVars, countVars,
                   resultVars>>

\* __main__.main: get_client(), then mcp.run(); a fault is logged and re-raised
Main ==
    /\ proc = "loaded"
    /\ entry \in {"main", "script"}
    /\ \E refresh_ok \in BOOLEAN :
          /\ MainGetClientEffect(refresh_ok)
          /\ proc' = IF MainGotClient(refresh_ok) THEN "serving" ELSE "crashed"
    /\ UNCHANGED <<otherVars, credentials, entry, calls, argVars, pc, localVars, rowVars, countVars,
                   resultVars>>

\* the package imported by a host that runs mcp itself: main() is not called
\* (the guard __name__ == "__main__" is false)
HostRun ==
    /\ proc = "loaded"
    /\ entry = "import"
    /\ proc' = "serving"
    /\ UNCHANGED <<otherVars, credentials, entry, clientVars, calls, argVars, pc, localVars, rowVars,
                   countVars, resultVars>>

\* a return statement of a tool: the JSON object and whether it reports a failure
Returned(envelope, isFailure) == [outcome |-> "returned", ret |-> envelope, failed |-> isFailure]

\* a fault that leaves the tool
Raised(msg) == [outcome |-> "raised", ret |-> [exception |-> msg], failed |-> TRUE]

\* the invocation ends with result r
Finish(r) ==
    /\ pc' = "done"
    /\ outcome' = r.outcome
    /\ ret' = r.ret
    /\ failed' = r.failed

\* a tool is invoked by the host
Invoke(name, q, c) ==
    /\ proc = "serving"
    /\ pc = "idle"
    /\ calls < MaxCalls
    /\ calls' = calls + 1
    /\ tool' = name
    /\ arg_query' = q
    /\ arg_customer_id' = c

\* the host takes the result; every per-invocation object is discarded
Complete ==
    /\ pc = "done"
    /\ pc' = "idle"
    /\ tool' = "none"
    /\ arg_query' = NoArg
    /\ arg_customer_id' = ""
    /\ query' = ""
    /\ fixes' = <<>>
    /\ formatted_customer_id' = ""
    /\ response' = <<>>
    /\ requested_entities' = <<>>
    /\ remote_result' = "none"
    /\ get_client_calls' = 0
    /\ attempted' = FALSE
    /\ remote_calls' = 0
    /\ outcome' = "none"
    /\ ret' = NoRet
    /\ failed' = FALSE
    /\ UNCHANGED <<otherVars, procVars, clientVars, calls>>

\* get_client() called by a tool invocation other than the one followed in
\* detail, running on the same event loop while that one is suspended in
\* await asyncio.to_thread(<remote call>), the only suspension point of a
\* tool.  get_client() has no await, so it runs without interleaving; the
\* singleton is the only state the invocations share.
ConcurrentGetClient ==
    /\ proc = "serving"
    /\ pc = "awaiting"
    /\ others_started < MaxOthers
    /\ others_started' = others_started + 1
    /\ \E refresh_ok \in BOOLEAN : GetClientEffect(refresh_ok)
    /\ UNCHANGED <<procVars, calls, argVars, pc, localVars, rowVars, countVars, resultVars>>

\* get_client() called from a tool: the counters of the invocation
CallGetClient(refresh_ok) ==
    /\ GetClientEffect(refresh_ok)
    /\ get_client_calls' = get_client_calls + 1
    /\ attempted' = (ads_client = "None")

\* json.dumps(obj, indent=2) of an error_details list: it raises TypeError
\* when an entry holds error.location.field_path_elements, a repeated
\* protobuf container
DetailsSerializable(error_details) ==
    \A k \in 1..Len(error_details) : error_details[k].location = "None"

RECURSIVE DetailsWithLocation(_)
\* the loop over ex.failure.errors of gaql.py and of _get_customer_info_async
DetailsWithLocation(errors) ==
    IF errors = <<>> THEN <<>>
    ELSE <<[error_code |-> Head(errors).error_code,
            message |-> Head(errors).message,
            location |-> IF Head(errors).location THEN "field_path_elements" ELSE "None"]>>
         \o DetailsWithLocation(Tail(errors))

RECURSIVE Details(_)
\* the loop over ex.failure.errors of health.py and of _list_accessible_customers_async
Details(errors) ==
    IF errors = <<>> THEN <<>>
    ELSE <<[error_code |-> Head(errors).error_code, message |-> Head(errors).message]>>
         \o Details(Tail(errors))

(***************************************************************************)
(* tools/gaql.py: execute_gaql                                             *)
(***************************************************************************)

\* the JSON object of the handler "except Exception" of _execute_gaql_async
ExecuteFault(msg, q) == [error |-> "Failed to execute GAQL query: " \o msg, query |-> q]

\* ResponseData with the bug of always adding auto_fixes_applied
ResponseData_AlwaysFixes(q, cid, results, fx) ==
    [query |-> q, customer_id |-> cid, total_results |-> Len(results),
     results |-> results, auto_fixes_applied |-> fx]

\* response_data, with auto_fixes_applied added when fixes is not empty
ResponseData(q, cid, results, fx) ==
    IF fx # <<>>
    THEN [query |-> q, customer_id |-> cid, total_results |-> Len(results),
          results |-> results, auto_fixes_applied |-> fx]
    ELSE [query |-> q, customer_id |-> cid, total_results |-> Len(results),
          results |-> results]

\* _execute_gaql_async after the remote call returned response
ExecuteSuccess(rows, entities) ==
    LET results == FlattenRows(rows, entities)
    IN  IF results.ok
        THEN Returned(ResponseData(query, formatted_customer_id, results.val, fixes), FALSE)
        ELSE Returned(ExecuteFault(results.val, query), TRUE)

\* the handler "except GoogleAdsException" of _execute_gaql_async
ExecuteAdsError(errors) ==
    LET error_details == DetailsWithLocation(errors)
    IN  IF DetailsSerializable(error_details)
        THEN Returned([error |-> "Google Ads API error", details |-> error_details,
                       query |-> query], TRUE)
        ELSE Raised("TypeError: Object of type RepeatedComposite is not JSON serializable")

\* _execute_gaql_async up to the await of the remote search call
ExecuteGaqlBegin ==
    \E q \in Queries, c \in CustomerIds, refresh_ok \in BOOLEAN :
        /\ q \in CoreQueries \/ c = GoodCustomerId
        /\ Invoke("execute_gaql", q, c)
        /\ IF ~validate_gaql_query(q)
           THEN /\ Finish(Returned([error |-> "Invalid GAQL query format", query |-> q.val], TRUE))
                /\ UNCHANGED <<clientVars, localVars, countVars>>
           ELSE LET fixed == detect_and_fix_date_formats(q.val)
                    formatted == format_customer_id(c)
                IN  /\ query' = fixed.query
                    /\ fixes' = fixed.fixes
                    /\ IF c = ""
                       THEN /\ Finish(Returned([error |-> "customer_id is required"], TRUE))
                            /\ UNCHANGED <<clientVars, formatted_customer_id, countVars>>
                       ELSE IF ~formatted.ok
                       THEN /\ Finish(Returned(ExecuteFault(formatted.val, fixed.query), TRUE))
                            /\ UNCHANGED <<clientVars, formatted_customer_id, countVars>>
                       ELSE /\ formatted_customer_id' = formatted.val
                            /\ CallGetClient(refresh_ok)
                            /\ IF get_client(refresh_ok).ok
                               THEN /\ pc' = "awaiting"
                                    /\ remote_calls' = remote_calls + 1
                                    /\ UNCHANGED resultVars
                               ELSE /\ Finish(Returned(ExecuteFault(get_client(refresh_ok).val,
                                                                     fixed.query), TRUE))
                                    /\ UNCHANGED remote_calls
    /\ UNCHANGED <<otherVars, procVars, rowVars>>

\* _execute_gaql_async from the completion of the remote search call;
\* entities is parse_select_fields(query), computed when the call succeeded
ExecuteGaqlAfterCall(entities) ==
    /\ pc = "awaiting"
    /\ tool = "execute_gaql"
    /\ \/ \E rows \in SearchResponses :
            /\ response' = rows
            /\ requested_entities' = entities
            /\ remote_result' = "ok"
            /\ Finish(ExecuteSuccess(rows, entities))
       \/ \E errors \in AdsFailures :
            /\ remote_result' = "ads_error"
            /\ Finish(ExecuteAdsError(errors))
            /\ UNCHANGED <<response, requested_entities>>
       \/ \E msg \in RemoteFaults :
            /\ remote_result' = "fault"
            /\ Finish(Returned(ExecuteFault(msg, query), TRUE))
            /\ UNCHANGED <<response, requested_entities>>
    /\ others_started' = 0
    /\ UNCHANGED <<procVars, clientVars, calls, argVars, localVars, countVars>>

ExecuteGaqlResume == ExecuteGaqlAfterCall(parse_select_fields(query))

\* tools.preprocess_gaql: preprocess_gaql_query has no remote call
PreprocessGaql ==
    /\ \E q \in Queries :
          /\ Invoke("preprocess_gaql", q, "")
          /\ Finish(Returned(preprocess_gaql_query(q), ~validate_gaql_query(q)))
    /\ UNCHANGED <<otherVars, procVars, clientVars, localVars, rowVars, countVars>>

(***************************************************************************)
(* tools/customers.py: get_customer_details and list_customers             *)
(***************************************************************************)

\* the query of _get_customer_info_async
CustomerInfoQuery ==
    "\n            SELECT\n                customer.id,\n"
    \o "                customer.descriptive_name,\n"
    \o "                customer.currency_code,\n"
    \o "                customer.time_zone,\n"
    \o "                customer.tracking_url_template,\n"
    \o "                customer.auto_tagging_enabled,\n"
    \o "                customer.has_partners_badge,\n"
    \o "                customer.manager,\n"
    \o "                customer.test_account,\n"
    \o "                customer.resource_name\n"
    \o "            FROM customer\n            LIMIT 1\n        "

\* d.get(k, default)
DictGet(d, k, default) == IF k \in DOMAIN d THEN d[k] ELSE default

\* the JSON object of the handler "except Exception" of _get_customer_info_async
CustomerFault(msg) == [error |-> "Failed to get customer info: " \o msg]

\* the JSON object built from results[0]
CustomerInfo(cid, customer_data) ==
    [customer_id |-> cid,
     name |-> DictGet(customer_data, "descriptive_name", Json("str", "", <<>>)),
     currency_code |-> DictGet(customer_data, "currency_code", Json("str", "", <<>>)),
     time_zone |-> DictGet(customer_data, "time_zone", Json("str", "", <<>>)),
     resource_name |-> DictGet(customer_data, "resource_name", Json("str", "", <<>>)),
     auto_tagging_enabled |-> DictGet(customer_data, "auto_tagging_enabled", Json("bool", "false", <<>>)),
     has_partners_badge |-> DictGet(customer_data, "has_partners_badge", Json("bool", "false", <<>>)),
     is_manager |-> DictGet(customer_data, "manager", Json("bool", "false", <<>>)),
     is_test_account |-> DictGet(customer_data, "test_account", Json("bool", "false", <<>>)),
     tracking_url_template |-> DictGet(customer_data, "tracking_url_template", Json("str", "", <<>>))]

\* _get_customer_info_async after the remote call returned response
CustomerSuccess(rows, entities) ==
    LET results == FlattenRows(rows, entities)
    IN  IF ~results.ok THEN Returned(CustomerFault(results.val), TRUE)
        ELSE IF results.val # <<>>
        THEN Returned(CustomerInfo(formatted_customer_id,
                                   DictGet(results.val[1], "customer", EmptyDict)), FALSE)
        ELSE Returned([error |-> "No customer information found for ID: "
                                    \o formatted_customer_id], TRUE)

\* the handler "except GoogleAdsException" of _get_customer_info_async
CustomerAdsError(errors) ==
    LET error_details == DetailsWithLocation(errors)
    IN  IF DetailsSerializable(error_details)
        THEN Returned([error |-> "Google Ads API error", details |-> error_details], TRUE)
        ELSE Raised("TypeError: Object of type RepeatedComposite is not JSON serializable")

\* _get_customer_info_async up to the await of the remote search call
GetCustomerDetailsBegin ==
    \E c \in CustomerIds, refresh_ok \in BOOLEAN :
        /\ Invoke("get_customer_details", NoArg, c)
        /\ LET formatted == format_customer_id(c)
           IN  IF c = ""
               THEN /\ Finish(Returned([error |-> "customer_id is required"], TRUE))
                    /\ UNCHANGED <<clientVars, localVars, countVars>>
               ELSE IF ~formatted.ok
               THEN /\ Finish(Returned(CustomerFault(formatted.val), TRUE))
                    /\ UNCHANGED <<clientVars, localVars, countVars>>
               ELSE /\ formatted_customer_id' = formatted.val
                    /\ query' = CustomerInfoQuery
                    /\ UNCHANGED fixes
                    /\ CallGetClient(refresh_ok)
                    /\ IF get_client(refresh_ok).ok
                       THEN /\ pc' = "awaiting"
                            /\ remote_calls' = remote_calls + 1
                            /\ UNCHANGED resultVars
                       ELSE /\ Finish(Returned(CustomerFault(get_client(refresh_ok).val), TRUE))
                            /\ UNCHANGED remote_calls
    /\ UNCHANGED <<otherVars, procVars, rowVars>>

\* _get_customer_info_async from the completion of the remote search call;
\* entities is parse_select_fields(query), computed when the call succeeded
GetCustomerDetailsAfterCall(entities) ==
    /\ pc = "awaiting"
    /\ tool = "get_customer_details"
    /\ \/ \E rows \in CustomerResponses :
            /\ response' = rows
            /\ requested_entities' = entities
            /\ remote_result' = "ok"
            /\ Finish(CustomerSuccess(rows, entities))
       \/ \E errors \in AdsFailures :
            /\ remote_result' = "ads_error"
            /\ Finish(CustomerAdsError(errors))
            /\ UNCHANGED <<response, requested_entities>>
       \/ \E msg \in RemoteFaults :
            /\ remote_result' = "fault"
            /\ Finish(Returned(CustomerFault(msg), TRUE))
            /\ UNCHANGED <<response, requested_entities>>
    /\ others_started' = 0
    /\ UNCHANGED <<procVars, clientVars, calls, argVars, localVars, countVars>>

GetCustomerDetailsResume == GetCustomerDetailsAfterCall(parse_select_fields(query))

\* customer_resource_name.split("/")[-1]
LastSegment(resource_name) ==
    LET parts == Split(resource_name, "/") IN parts[Len(parts)]

RECURSIVE Customers(_)
\* the customers list of _list_accessible_customers_async
Customers(resource_names) ==
    IF resource_names = <<>> THEN <<>>
    ELSE <<[customer_id |-> LastSegment(Head(resource_names)),
            resource_name |-> Head(resource_names),
            status |-> "accessible"]>> \o Customers(Tail(resource_names))

\* ListFault with the bug of reporting the fault without the error key
ListFault_NoErrorKey(msg) == [message |-> "Failed to list accessible customers: " \o msg]

\* the JSON object of the handler "except Exception" of _list_accessible_customers_async
ListFault(msg) == [error |-> "Failed to list accessible customers: " \o msg]

\* _list_accessible_customers_async up to the await of list_accessible_customers
ListCustomersBegin ==
    /\ \E refresh_ok \in BOOLEAN :
          /\ Invoke("list_customers", NoArg, "")
          /\ CallGetClient(refresh_ok)
          /\ IF get_client(refresh_ok).ok
             THEN /\ pc' = "awaiting"
                  /\ remote_calls' = remote_calls + 1
                  /\ UNCHANGED resultVars
             ELSE /\ Finish(Returned(ListFault(get_client(refresh_ok).val), TRUE))
                  /\ UNCHANGED remote_calls
    /\ UNCHANGED <<otherVars, procVars, localVars, rowVars>>

\* _list_accessible_customers_async from the completion of the remote call
ListCustomersResume ==
    /\ pc = "awaiting"
    /\ tool = "list_customers"
    /\ \/ \E names \in ResourceNameLists :
            /\ remote_result' = "ok"
            /\ Finish(Returned([total_customers |-> Len(names),
                                customers |-> Customers(names)], FALSE))
       \/ \E errors \in AdsFailures :
            /\ remote_result' = "ads_error"
            /\ Finish(Returned([error |-> "Google Ads API error",
                                details |-> Details(errors)], TRUE))
       \/ \E msg \in RemoteFaults :
            /\ remote_result' = "fault"
            /\ Finish(Returned(ListFault(msg), TRUE))
    /\ others_started' = 0
    /\ UNCHANGED <<procVars, clientVars, calls, argVars, localVars, response,
                   requested_entities, countVars>>

(***************************************************************************)
(* tools/health.py: check_connection                                       *)
(***************************************************************************)

\* the number of customers check_google_ads_connection reports
MaxReported == 5

RECURSIVE HealthCustomers(_)
\* the customers list of check_google_ads_connection
HealthCustomers(resource_names) ==
    IF resource_names = <<>> THEN <<>>
    ELSE <<[customer_id |-> LastSegment(Head(resource_names)),
            resource_name |-> Head(resource_names)]>> \o HealthCustomers(Tail(resource_names))

\* the JSON object of the handler "except Exception" of check_google_ads_connection
HealthFault(error_type, msg) == [status |-> "error", error_type |-> error_type, message |-> msg]

\* get_client raises RuntimeError
HealthClientFault(msg) == HealthFault("RuntimeError", msg)

\* the JSON object check_google_ads_connection returns when the remote call succeeds
Connected(resource_names) ==
    LET customers == HealthCustomers(resource_names)
    IN  [status |-> "connected",
         authentication_method |-> "refresh_token",
         mcc_account |-> "N/A",
         total_accessible_customers |-> Len(customers),
         accessible_customers |->
             SubSeq(customers, 1, IF Len(customers) < MaxReported THEN Len(customers)
                                  ELSE MaxReported),
         message |-> "Successfully authenticated with Google Ads API"]

\* check_google_ads_connection up to the await of list_accessible_customers
CheckConnectionBegin ==
    /\ \E refresh_ok \in BOOLEAN :
          /\ Invoke("check_connection", NoArg, "")
          /\ CallGetClient(refresh_ok)
          /\ IF get_client(refresh_ok).ok
             THEN /\ pc' = "awaiting"
                  /\ remote_calls' = remote_calls + 1
                  /\ UNCHANGED resultVars
             ELSE /\ Finish(Returned(HealthClientFault(get_client(refresh_ok).val), TRUE))
                  /\ UNCHANGED remote_calls
    /\ UNCHANGED <<otherVars, procVars, localVars, rowVars>>

\* check_google_ads_connection from the completion of the remote call
CheckConnectionResume ==
    /\ pc = "awaiting"
    /\ tool = "check_connection"
    /\ \/ \E names \in ResourceNameLists :
            /\ remote_result' = "ok"
            /\ Finish(Returned(Connected(names), FALSE))
       \/ \E errors \in AdsFailures :
            /\ remote_result' = "ads_error"
            /\ Finish(Returned([status |-> "error", error_type |-> "GoogleAdsException",
                                details |-> Details(errors)], TRUE))
       \/ \E msg \in RemoteFaults :
            /\ remote_result' = "fault"
            /\ Finish(Returned(HealthFault("Exception", msg), TRUE))
    /\ others_started' = 0
    /\ UNCHANGED <<procVars, clientVars, calls, argVars, localVars, response,
                   requested_entities, countVars>>

Next ==
    \/ LoadSettings
    \/ Main
    \/ HostRun
    \/ ExecuteGaqlBegin
    \/ ExecuteGaqlResume
    \/ PreprocessGaql
    \/ GetCustomerDetailsBegin
    \/ GetCustomerDetailsResume
    \/ ListCustomersBegin
    \/ ListCustomersResume
    \/ CheckConnectionBegin
    \/ CheckConnectionResume
    \/ Complete
    \/ ConcurrentGetClient

Spec == Init /\ [][Next]_vars

(***************************************************************************)
(* Properties                                                              *)
(***************************************************************************)

\* sub occurs in s in some letter case
ContainsCI(s, sub) == Contains(Lower(s), Lower(sub))

\* the elements of a sequence
Range(seq) == {seq[k] : k \in 1..Len(seq)}

RECURSIVE RemoveChars(_, _)
\* s without the characters of the set chars
RemoveChars(s, chars) ==
    IF s = "" THEN ""
    ELSE (IF Ch(s, 1) \in chars THEN "" ELSE Ch(s, 1)) \o RemoveChars(Tail_(s, 2), chars)

\* an account identifier as the specification normalizes it: every dash and
\* every whitespace character removed
Normalized(customer_id) == RemoveChars(customer_id, {"-"} \cup WhitespaceSet)

\* exactly 10 decimal digits
TenDecimalDigits(s) == Len(s) = 10 /\ \A i \in 1..Len(s) : Ch(s, i) \in AsciiDigitSet

\* the account identifier is empty or not 10 digits after normalization
InvalidAccountId(customer_id) == customer_id = "" \/ ~TenDecimalDigits(Normalized(customer_id))

\* the query is empty, not text, does not start with SELECT after trimming,
\* or lacks FROM
InvalidQueryShape(q) ==
    \/ ~q.isStr
    \/ q.val = ""
    \/ ~StartsWith(Upper(Strip(q.val)), "SELECT")
    \/ ~ContainsCI(q.val, "FROM")

\* the invocation in progress has an invalid input
InvalidInput ==
    \/ tool = "execute_gaql" /\ (InvalidQueryShape(arg_query) \/ InvalidAccountId(arg_customer_id))
    \/ tool = "get_customer_details" /\ InvalidAccountId(arg_customer_id)

\* C1: an execute_gaql or get_customer_details invocation whose input is
\* invalid never calls get_client nor the remote search call, and ends in an
\* error envelope.
C1_InvalidInputShortCircuits ==
    InvalidInput =>
        /\ get_client_calls = 0
        /\ remote_calls = 0
        /\ pc = "done" => outcome = "returned" /\ "error" \in DOMAIN ret

\* a tool returned a JSON object
ReturnedObject == pc = "done" /\ outcome = "returned"

\* C2 as stated: for every tool, the returned JSON object contains the
\* error key if and only if the invocation failed.
C2_ErrorKeyIffFailed == ReturnedObject => (("error" \in DOMAIN ret) <=> failed)

\* C2 as amended: execute_gaql, preprocess_gaql, list_customers and
\* get_customer_details return an object with the error key if and only if
\* the invocation failed; check_connection never returns the error key and
\* reports a failure by status "error", a success by status "connected".
C2_ErrorKeyIffFailedExceptHealth ==
    ReturnedObject =>
        IF tool = "check_connection"
        THEN /\ "error" \notin DOMAIN ret
             /\ ret.status = (IF failed THEN "error" ELSE "connected")
        ELSE ("error" \in DOMAIN ret) <=> failed

\* a tool other than check_connection failed after its remote call was
\* issued and returned the error shape
C2_Witness ==
    /\ ReturnedObject
    /\ tool = "list_customers"
    /\ remote_calls = 1
    /\ failed
    /\ "error" \in DOMAIN ret

\* C3: no fault crosses a tool boundary: every invocation ends by returning
\* a JSON object, never by raising.
C3_NoFaultCrossesBoundary == pc = "done" => outcome = "returned"

\* the Rewriter has run in the invocation in progress
Rewritten == tool = "execute_gaql" /\ pc # "idle" /\ ~InvalidQueryShape(arg_query)

\* C4: a query containing "segments.date = YESTERDAY" in any letter case is
\* returned containing "segments.date DURING YESTERDAY" with exactly one fix
\* record; a query whose date filter already uses DURING is returned
\* unchanged with no fix record.
C4_YesterdayRewritten ==
    Rewritten =>
        /\ ContainsCI(arg_query.val, "segments.date = YESTERDAY") =>
              Contains(query, "segments.date DURING YESTERDAY") /\ Len(fixes) = 1
        /\ ContainsCI(arg_query.val, "segments.date DURING") =>
              query = arg_query.val /\ fixes = <<>>

\* format_customer_id was applied to the account identifier of the
\* invocation in progress
Formatted == tool = "get_customer_details" /\ pc # "idle" /\ arg_customer_id # ""

\* C5: format_customer_id succeeds exactly when the identifier, with every
\* dash and whitespace character removed, is 10 decimal digits, and then
\* returns these 10 digits; it fails on every other input.
C5_FormatAcceptsExactlyTenDigits ==
    Formatted =>
        IF TenDecimalDigits(Normalized(arg_customer_id))
        THEN formatted_customer_id = Normalized(arg_customer_id)
        ELSE formatted_customer_id = "" /\ get_client_calls = 0

\* the tokens of the SELECT clause that have a dot
DottedTokens(tokens) == SelectSeq(tokens, LAMBDA t : Contains(t, "."))

\* the text of a token before its first dot, and after it
EntityOf(token) == SubSeq(token, 1, Find(token, ".") - 1)

AttributeOf(token) == Tail_(token, Find(token, ".") + 1)

\* the position of the first token of entity e
FirstAppearance(tokens, e) == Min({i \in 1..Len(tokens) : EntityOf(tokens[i]) = e})

\* the attributes of the tokens of entity e, in the order of the tokens
AttributesInOrder(tokens, e) ==
    LET own == SelectSeq(tokens, LAMBDA t : EntityOf(t) = e)
    IN  [i \in 1..Len(own) |-> AttributeOf(own[i])]

\* parse_select_fields has run in the invocation in progress
Parsed == tool \in {"execute_gaql", "get_customer_details"} /\ remote_result = "ok"

\* C6: the mapping parse_select_fields returns has one entry per entity of
\* a dot-qualified token of the SELECT clause, the entities in the order of
\* their first appearance, the attributes of each entity in the order of
\* their tokens; tokens without a dot are dropped, and a SELECT clause
\* without a dot-qualified token gives the empty mapping.
C6_ProjectionInSelectOrder ==
    Parsed =>
        LET tokens == DottedTokens(SelectFields(query))
            m == requested_entities
        IN  /\ {m[k].entity : k \in 1..Len(m)} = {EntityOf(tokens[i]) : i \in 1..Len(tokens)}
            /\ \A j, k \in 1..Len(m) :
                  j < k => FirstAppearance(tokens, m[j].entity) < FirstAppearance(tokens, m[k].entity)
            /\ \A k \in 1..Len(m) : m[k].attrs = AttributesInOrder(tokens, m[k].entity)
            /\ tokens = <<>> => m = <<>>

\* a SELECT clause with a token without a dot, two entities, and an entity
\* with three attributes that appears second and is interleaved
C6_Witness ==
    /\ Parsed
    /\ Len(SelectFields(query)) > Len(DottedTokens(SelectFields(query)))
    /\ Len(requested_entities) = 2
    /\ Len(requested_entities[2].attrs) = 3
    /\ EntityOf(SelectFields(query)[Len(SelectFields(query))]) = requested_entities[2].entity

\* the entities of the Field Projection Map, and the attributes mapped for one
MappedEntities == {requested_entities[k].entity : k \in 1..Len(requested_entities)}

MappedAttributes(e) ==
    UNION {Range(requested_entities[k].attrs) :
             k \in {j \in 1..Len(requested_entities) : requested_entities[j].entity = e}}

\* execute_gaql returned its success envelope
ExecuteSucceeded == tool = "execute_gaql" /\ ReturnedObject /\ ~failed

\* C7: every flattened row has exactly the mapped entities that exist on
\* the row as keys, and under each exactly the attributes mapped for it,
\* null for the attributes absent on the row; nothing else appears.
C7_FlattenedRowShape ==
    ExecuteSucceeded =>
        /\ Len(ret.results) = Len(response)
        /\ \A k \in 1..Len(response) :
              LET row == response[k]
                  flat == ret.results[k]
              IN  /\ DOMAIN flat = {e \in MappedEntities : e \in DOMAIN row}
                  /\ \A e \in DOMAIN flat :
                        /\ DOMAIN flat[e] = MappedAttributes(e)
                        /\ \A a \in DOMAIN flat[e] :
                              (flat[e][a] = JsonNull) <=> (a \notin DOMAIN row[e])

\* a flattened row that omits a mapped entity absent on the row and holds a
\* null for a mapped attribute absent on the row, next to a converted value
C7_Witness ==
    /\ ExecuteSucceeded
    /\ \E k \in 1..Len(response) :
          /\ \E e \in MappedEntities : e \notin DOMAIN ret.results[k]
          /\ \E e \in DOMAIN ret.results[k] :
                /\ \E a \in DOMAIN ret.results[k][e] : ret.results[k][e][a] = JsonNull
                /\ \E a \in DOMAIN ret.results[k][e] : ret.results[k][e][a] # JsonNull
          /\ DOMAIN response[k] \ MappedEntities # {}

\* C8 as stated: the success envelope of execute_gaql carries the query the
\* caller supplied, also when fixes were applied, and auto_fixes_applied is
\* present exactly when a fix record was produced.
C8_EnvelopeCarriesOriginalQuery ==
    ExecuteSucceeded =>
        /\ ret.query = arg_query.val
        /\ ("auto_fixes_applied" \in DOMAIN ret) <=> (fixes # <<>>)

\* C8 as amended: the success envelope of execute_gaql carries the query
\* the Rewriter returned, which is the query sent to the remote call and
\* differs from the caller's query whenever a substitution was made;
\* auto_fixes_applied is present exactly when a fix record was produced,
\* and then holds the fix records.
C8_EnvelopeCarriesRewrittenQuery ==
    ExecuteSucceeded =>
        LET fixed == detect_and_fix_date_formats(arg_query.val)
        IN  /\ ret.query = fixed.query
            /\ ("auto_fixes_applied" \in DOMAIN ret) <=> (fixed.fixes # <<>>)
            /\ "auto_fixes_applied" \in DOMAIN ret => ret.auto_fixes_applied = fixed.fixes

\* a success envelope whose query is not the caller's, with the fixes
C8_Witness ==
    /\ ExecuteSucceeded
    /\ ret.query # arg_query.val
    /\ "auto_fixes_applied" \in DOMAIN ret
    /\ Len(ret.auto_fixes_applied) = 1

\* C9 as stated: a missing required credential does not crash the process;
\* the singleton stays unconstructed.
C9_MissingCredentialNotFatal ==
    credentials # "present" => proc # "crashed" /\ ads_client = "None"

\* C9 as amended: a missing required credential is fatal at startup: when
\* it is absent the settings fail to load, and when it is empty the
\* construction in main() fails and main() re-raises, so that a process
\* started through main() never serves a tool; the singleton stays
\* unconstructed.
\* Only a construction that fails inside a tool call (tools hosted without
\* main()) leaves the process running: that call ends as a failure, and
\* every get_client call made while the singleton is unset attempts the
\* construction again.
C9_MissingCredentialFatalAtStartup ==
    /\ credentials # "present" => ads_client = "None" /\ constructions = 0
    /\ credentials = "absent" => proc \in {"boot", "crashed"}
    /\ credentials # "present" /\ entry \in {"main", "script"} =>
          proc \in {"boot", "loaded", "crashed"} /\ main_ads_client = "None"
    /\ get_client_calls > 0 /\ ads_client = "None" =>
          attempted /\ pc = "done" /\ failed /\ remote_calls = 0

\* main() crashed on an empty credential after one construction attempt
C9_Witness ==
    /\ credentials = "empty"
    /\ entry = "main"
    /\ proc = "crashed"
    /\ construct_attempts = 1
    /\ ads_client = "None"

\* preprocess_gaql returned its advisory envelope
Advised == tool = "preprocess_gaql" /\ ReturnedObject /\ ~failed

\* C10: the date-range suggestion is never made for a query without the
\* date segment field, the filtering suggestion never for a query without
\* an aggregate field, "SELECT campaign.name FROM campaign" gets the LIMIT
\* suggestion only, and suggestion_count is the number of suggestions.
C10_ChecksNeedTheirTrigger ==
    Advised =>
        /\ SuggestDateRange \in Range(ret.suggestions) =>
              ContainsCI(arg_query.val, "segments.date")
        /\ SuggestFilter \in Range(ret.suggestions) =>
              \/ ContainsCI(arg_query.val, "metrics.impressions")
              \/ ContainsCI(arg_query.val, "metrics.clicks")
              \/ ContainsCI(arg_query.val, "metrics.cost_micros")
        /\ arg_query.val = "SELECT campaign.name FROM campaign" =>
              ret.suggestions = <<SuggestLimit>>
        /\ ret.suggestion_count = Len(ret.suggestions)

\* the advisory envelope of "SELECT campaign.name FROM campaign"
C10_Witness ==
    /\ Advised
    /\ arg_query.val = "SELECT campaign.name FROM campaign"
    /\ ret.suggestion_count = 1

\* C11: under any interleaving of concurrent tool invocations, get_client
\* constructs the remote client successfully at most once per process, and
\* while no construction has succeeded the singleton the tools read is unset.
C11_ConstructedAtMostOncePerProcess ==
    /\ constructions <= 1
    /\ constructions = 0 => ads_client = "None"

\* the date-equality expressions the detector matches in s
DateEqualities(s) == FindAllDate(s, 1)

\* C12: whenever the Rewriter returns at least one fix record, the returned
\* query differs from the input and no longer contains a date-equality
\* expression the detector matches, whatever the spacing around "=" and the
\* letter case of the field name.
C12_FixRecordsAreSubstitutions ==
    Rewritten /\ fixes # <<>> =>
        /\ query # arg_query.val
        /\ DateEqualities(query) = <<>>

\* the Rewriter's fix records for the query preprocess_gaql was called with
RewriterFixes == detect_and_fix_date_formats(arg_query.val).fixes

\* C13 as stated: preprocess_gaql never emits the date-range suggestion for
\* a query the Rewriter returns a fix record for, and its optimized_query is
\* the input with the surrounding whitespace trimmed.
C13_AdvisorAndRewriterDisjoint ==
    Advised =>
        /\ ~(SuggestDateRange \in Range(ret.suggestions) /\ RewriterFixes # <<>>)
        /\ ret.optimized_query = Strip(arg_query.val)

\* C13 as amended: preprocess_gaql never rewrites, its optimized_query being
\* the input with the surrounding whitespace trimmed; the date-range
\* suggestion is emitted exactly when the query contains "segments.date" and
\* nowhere "DURING", in any letter case, so it is emitted for every query the
\* Rewriter returns a fix record for, unless DURING occurs elsewhere in it.
C13_AdvisorOverlapsRewriter ==
    Advised =>
        /\ ret.optimized_query = Strip(arg_query.val)
        /\ ret.original_query = arg_query.val
        /\ SuggestDateRange \in Range(ret.suggestions) <=>
              (ContainsCI(arg_query.val, "segments.date") /\ ~ContainsCI(arg_query.val, "during"))
        /\ RewriterFixes # <<>> /\ ~ContainsCI(arg_query.val, "during") =>
              SuggestDateRange \in Range(ret.suggestions)

\* preprocess_gaql made the date-range suggestion for a query the Rewriter
\* returns a fix record for
C13_Witness ==
    /\ Advised
    /\ Contains(arg_query.val, "segments.date = YESTERDAY")
    /\ SuggestDateRange \in Range(ret.suggestions)
    /\ RewriterFixes # <<>>
    /\ ret.optimized_query = arg_query.val

RECURSIVE NormalForm(_)
RECURSIVE NormalItems(_)
RECURSIVE NormalFields(_)

\* the ordered sequence of the normalized elements
NormalItems(items) ==
    IF items = <<>> THEN <<>> ELSE <<NormalForm(Head(items))>> \o NormalItems(Tail(items))

\* the normalized sub-fields of a composite, an unset sub-field left out
NormalFields(fields) ==
    IF fields = <<>> THEN <<>>
    ELSE IF Head(fields)[2].kind = "none" THEN NormalFields(Tail(fields))
    ELSE <<(<<Head(fields)[1], NormalForm(Head(fields)[2])>>)>> \o NormalFields(Tail(fields))

\* the five rules of the value normalizer as the specification states them
NormalForm(value) ==
    IF value.kind \in {"str", "num", "bool"} THEN Json(value.kind, value.text, <<>>)
    ELSE IF value.kind \in {"enum", "int_enum"} THEN Json("str", value.text, <<>>)
    ELSE IF value.kind = "message" THEN Json("object", "", NormalFields(value.sub))
    ELSE IF value.kind = "repeated" THEN Json("array", "", NormalItems(value.sub))
    ELSE Json("str", value.text, <<>>)

\* the values of the requested attributes present in the rows of the response
RequestedValues ==
    {response[k][e][a] : <<k, e, a>> \in
        {t \in (1..Len(response)) \X MappedEntities \X
                 UNION {MappedAttributes(e) : e \in MappedEntities} :
            /\ t[2] \in DOMAIN response[t[1]]
            /\ t[3] \in MappedAttributes(t[2])
            /\ t[3] \in DOMAIN response[t[1]][t[2]]}}

\* C14: for every value of a requested attribute, at the top level as at
\* any nesting depth, _convert_protobuf_value does not raise and yields what
\* the five rules say: a scalar unchanged, the symbolic name of a value that
\* exposes one, a nested mapping for a composite, an ordered sequence for a
\* repeated value, the textual representation for anything else.
C14_NormalizerFollowsTheRules ==
    tool = "execute_gaql" /\ remote_result = "ok" =>
        \A value \in RequestedValues : ConvertValue(value) = Ok(NormalForm(value))

\* C15: in every tool invocation the remote call is issued at most once;
\* when it fails the invocation ends at once in an error envelope, without a
\* second attempt; and a success envelope of a tool with a remote call comes
\* from a call issued in that invocation, never from an earlier result.
C15_RemoteCallAtMostOnce ==
    /\ remote_calls <= 1
    /\ remote_result \in {"ads_error", "fault"} =>
          pc = "done" /\ remote_calls = 1 /\ failed /\ outcome = "returned"
    /\ ReturnedObject /\ ~failed /\ tool # "preprocess_gaql" =>
          remote_calls = 1 /\ remote_result = "ok"

====
